---- MODULE Spec2Model ----
(***************************************************************************)
(* Model of bambu_timelapse_download.py: ftp_download(args), the one       *)
(* routine that connects to the printer, lists the timelapse folder,       *)
(* filters out what is already present locally and fetches the rest.       *)
(*                                                                         *)
(* File names are sequences of one-character strings, so that              *)
(* str.endswith('.avi') is computed and not assumed.                       *)
(*                                                                         *)
(* The environment: the FTP server holds a set of files (remote) and       *)
(* reports them with NLST as a sequence (R), in which a name may occur     *)
(* more than once.  SIZE, RETR and DELE of a name the server does not hold *)
(* fail; every call may also fail for a reason of its own (network,        *)
(* permission), with any exception type and any message.  Removing a local *)
(* file that this process has just written succeeds.                       *)
(***************************************************************************)
EXTENDS Naturals, Sequences, FiniteSets

\* Longest listing the server reports.
MaxLen == 3
\* Largest size (in bytes) the server reports for a file.
MaxSize == 1
\* Most chunks RETR hands to the callback for one file.
MaxChunks == 2

Avi == <<".", "a", "v", "i">>

\* The file names of the model: two videos, and a name that ends with "avi"
\* but not with ".avi".
Names == { <<"a">> \o Avi, <<"b">> \o Avi, <<"x", "a", "v", "i">> }

Listings == UNION { [1..n -> Names] : n \in 0..MaxLen }

Range(s) == { s[i] : i \in 1..Len(s) }

\* args.ftp_timelapse_folder (its default) and another root entry.
ftp_timelapse_folder == <<"t", "i", "m", "e", "l", "a", "p", "s", "e">>
OtherFolder == <<"c", "a", "c", "h", "e">>
RootListings == { {OtherFolder}, {OtherFolder, ftp_timelapse_folder} }

\* Exceptions: the class that is tested (ftplib.error_perm or any other
\* Exception), str(e), and the call that raised it.
NoFilesMsg == "550 No files found"
ErrTypes == {"error_perm", "Exception"}
ErrMsgs == {NoFilesMsg, "other"}
NoExc == [type |-> "none", msg |-> "", at |-> "none"]
Raised(where) == { [type |-> t, msg |-> m, at |-> where] : t \in ErrTypes, m \in ErrMsgs }

VARIABLES
    pc,                  \* position in ftp_download
    dir_exists,          \* os.path.exists(args.download_dir)
    D,                   \* the download directory's content when the run starts
    local,               \* the download directory's content now
    downloaded_files,    \* line 86
    delete_files_from_sd_card_after_download,   \* args, line 172
    root,                \* the server's root listing
    R,                   \* the server's NLST reply in the timelapse folder
    remote,              \* the files the server holds in the timelapse folder
    ftp_timelapse_files, \* lines 103-104
    index,               \* enumerate(..., start=1)
    filesize,            \* line 111
    chunks,              \* chunks written by callback for the open file
    task,                \* per entry of ftp_timelapse_files: how far it got
    cmds,                \* FTP commands sent, in order
    log,                 \* kinds of messages logged
    exc,                 \* the exception being handled (or the fatal one)
    exit_code            \* the process' exit status

vars ==
    << pc, dir_exists, D, local, downloaded_files,
       delete_files_from_sd_card_after_download, root, R, remote,
       ftp_timelapse_files, index, filesize, chunks, task, cmds, log, exc,
       exit_code >>

----------------------------------------------------------------------------
\* f.endswith(suffix)
EndsWith(f, suffix) ==
    /\ Len(f) >= Len(suffix)
    /\ SubSeq(f, Len(f) - Len(suffix) + 1, Len(f)) = suffix

\* line 86: [f for f in os.listdir(download_dir) if f.endswith('.avi')]
ListDirAvi(dir) == { f \in dir : EndsWith(f, Avi) }

\* RemoteAvi with the dot of the suffix forgotten: f.endswith('avi')
RemoteAvi_NoDot(listing) ==
    LET IsAvi(f) == EndsWith(f, <<"a", "v", "i">>) IN SelectSeq(listing, IsAvi)

\* line 103: [f for f in ftp_client.nlst() if f.endswith('.avi')]
RemoteAvi(listing) ==
    LET IsAvi(f) == EndsWith(f, Avi) IN SelectSeq(listing, IsAvi)

\* line 104: [f for f in ftp_timelapse_files if f not in downloaded_files]
NotDownloaded(files, downloaded) ==
    LET IsNew(f) == f \notin downloaded IN SelectSeq(files, IsNew)

\* ZeroSize with a test that never holds (the size compared as text)
ZeroSize_Never(n) == n = 0 /\ n = 1

\* line 115: filesize == 0
ZeroSize(n) == n = 0

Cmd(c, a, i) == [cmd |-> c, arg |-> a, i |-> i]

Init ==
    /\ pc = "makedirs"
    /\ dir_exists \in BOOLEAN
    /\ D \in SUBSET Names
    /\ ~dir_exists => D = {}
    /\ local = D
    /\ downloaded_files = {}
    /\ delete_files_from_sd_card_after_download \in BOOLEAN
    /\ root \in RootListings
    /\ R \in Listings
    /\ remote = Range(R)
    /\ ftp_timelapse_files = <<>>
    /\ index = 0
    /\ filesize = 0
    /\ chunks = 0
    /\ task = <<>>
    /\ cmds = <<>>
    /\ log = {}
    /\ exc = NoExc
    /\ exit_code = 0

----------------------------------------------------------------------------
\* lines 83-84: create the download directory when it is missing
MakeDirs ==
    /\ pc = "makedirs"
    /\ \/ /\ pc' = "listdir"
          /\ dir_exists' = TRUE
          /\ exc' = exc
       \/ /\ ~dir_exists
          /\ \E e \in Raised("makedirs") : exc' = e
          /\ pc' = "except_connection"
          /\ dir_exists' = dir_exists
    /\ UNCHANGED << D, local, downloaded_files,
                    delete_files_from_sd_card_after_download, root, R, remote,
                    ftp_timelapse_files, index, filesize, chunks, task, cmds,
                    log, exit_code >>

\* line 86
ListDir ==
    /\ pc = "listdir"
    /\ downloaded_files' = ListDirAvi(local)
    /\ pc' = "connect"
    /\ log' = log \cup {"Connecting"}
    /\ UNCHANGED << dir_exists, D, local,
                    delete_files_from_sd_card_after_download, root, R, remote,
                    ftp_timelapse_files, index, filesize, chunks, task, cmds,
                    exc, exit_code >>

\* One call of the connection set-up (lines 90-92): it returns or raises.
SetupCall(here, next) ==
    /\ pc = here
    /\ \/ /\ pc' = next
          /\ exc' = exc
          /\ log' = IF next = "root_nlst" THEN log \cup {"Connected"} ELSE log
       \/ /\ \E e \in Raised(here) : exc' = e
          /\ pc' = "except_connection"
          /\ log' = log
    /\ UNCHANGED << dir_exists, D, local, downloaded_files,
                    delete_files_from_sd_card_after_download, root, R, remote,
                    ftp_timelapse_files, index, filesize, chunks, task, cmds,
                    exit_code >>

\* line 90
Connect == SetupCall("connect", "login")

\* line 91
Login == SetupCall("login", "prot_p")

\* lines 92-93
ProtP == SetupCall("prot_p", "root_nlst")

\* lines 94-96: except Exception: log, sys.exit(1)
ExceptConnection ==
    /\ pc = "except_connection"
    /\ log' = log \cup {"ConnectionFailed"}
    /\ exit_code' = 1
    /\ pc' = "exited"
    /\ UNCHANGED << dir_exists, D, local, downloaded_files,
                    delete_files_from_sd_card_after_download, root, R, remote,
                    ftp_timelapse_files, index, filesize, chunks, task, cmds,
                    exc >>

\* RootNlst without the membership test: the folder is entered in any case
RootNlst_NoCheck ==
    /\ pc = "root_nlst"
    /\ cmds' = Append(cmds, Cmd("NLST", <<>>, 0))
    /\ \/ /\ pc' = "cwd"
          /\ UNCHANGED << log, exc, exit_code >>
       \/ /\ \E e \in Raised("root_nlst") : exc' = e
          /\ pc' = "except_program"
          /\ UNCHANGED << log, exit_code >>
    /\ UNCHANGED << dir_exists, D, local, downloaded_files,
                    delete_files_from_sd_card_after_download, root, R, remote,
                    ftp_timelapse_files, index, filesize, chunks, task >>

\* lines 99, 153-155: the folder is looked up in the root listing; when it is
\* absent, sys.exit(1) (SystemExit is no Exception: line 156 lets it pass)
RootNlst ==
    /\ pc = "root_nlst"
    /\ cmds' = Append(cmds, Cmd("NLST", <<>>, 0))
    /\ \/ /\ ftp_timelapse_folder \in root
          /\ pc' = "cwd"
          /\ UNCHANGED << log, exc, exit_code >>
       \/ /\ ftp_timelapse_folder \notin root
          /\ log' = log \cup {"NotFound"}
          /\ exit_code' = 1
          /\ pc' = "exited"
          /\ exc' = exc
       \/ /\ \E e \in Raised("root_nlst") : exc' = e
          /\ pc' = "except_program"
          /\ UNCHANGED << log, exit_code >>
    /\ UNCHANGED << dir_exists, D, local, downloaded_files,
                    delete_files_from_sd_card_after_download, root, R, remote,
                    ftp_timelapse_files, index, filesize, chunks, task >>

\* line 100
Cwd ==
    /\ pc = "cwd"
    /\ cmds' = Append(cmds, Cmd("CWD", ftp_timelapse_folder, 0))
    /\ \/ /\ pc' = "nlst"
          /\ exc' = exc
       \/ /\ \E e \in Raised("cwd") : exc' = e
          /\ pc' = "except_program"
    /\ UNCHANGED << dir_exists, D, local, downloaded_files,
                    delete_files_from_sd_card_after_download, root, R, remote,
                    ftp_timelapse_files, index, filesize, chunks, task, log,
                    exit_code >>

\* lines 102-109, 146-147: list the folder, filter, and enter the loop or
\* return when nothing is left
Nlst ==
    /\ pc = "nlst"
    /\ cmds' = Append(cmds, Cmd("NLST", ftp_timelapse_folder, 0))
    /\ \/ LET files == NotDownloaded(RemoteAvi(R), downloaded_files)
              total_files == Len(files)
          IN  /\ ftp_timelapse_files' = files
              /\ task' = [i \in 1..total_files |-> "Pending"]
              /\ exc' = exc
              /\ IF total_files # 0
                 THEN /\ log' = log \cup {"Looking", "Found"}
                      /\ index' = 1
                      /\ pc' = "size"
                 ELSE /\ log' = log \cup {"Looking", "NoNew"}
                      /\ index' = index
                      /\ pc' = "exited"
       \/ /\ \E e \in Raised("nlst") : exc' = e
          /\ pc' = "except_error_perm"
          /\ log' = log \cup {"Looking"}
          /\ UNCHANGED << ftp_timelapse_files, task, index >>
    /\ UNCHANGED << dir_exists, D, local, downloaded_files,
                    delete_files_from_sd_card_after_download, root, R, remote,
                    filesize, chunks, exit_code >>

\* `continue`, or the end of the loop body: the next entry, or the loop is
\* over and ftp_download returns (exit status 0)
Continue ==
    IF index < Len(ftp_timelapse_files)
    THEN /\ index' = index + 1
         /\ pc' = "size"
    ELSE /\ index' = index
         /\ pc' = "exited"

\* lines 111-113: SIZE f, outside the try of line 118.  It returns a size,
\* returns None (a reply other than 213; line 112 then raises TypeError), or
\* raises.
Size ==
    /\ pc = "size"
    /\ LET f == ftp_timelapse_files[index] IN
       /\ cmds' = Append(cmds, Cmd("SIZE", f, index))
       /\ task' = [task EXCEPT ![index] = "Sizing"]
       /\ \/ /\ f \in remote
             /\ \E n \in 0..MaxSize : filesize' = n
             /\ pc' = "sized"
             /\ exc' = exc
          \/ /\ f \in remote
             /\ exc' = [type |-> "Exception", msg |-> "other", at |-> "size"]
             /\ pc' = "except_error_perm"
             /\ filesize' = filesize
          \/ /\ \E e \in Raised("size") : exc' = e
             /\ pc' = "except_error_perm"
             /\ filesize' = filesize
    /\ UNCHANGED << dir_exists, D, local, downloaded_files,
                    delete_files_from_sd_card_after_download, root, R, remote,
                    ftp_timelapse_files, index, chunks, log, exit_code >>

\* lines 115-117
SkipZero ==
    /\ pc = "sized"
    /\ ZeroSize(filesize)
    /\ log' = log \cup {"SkipZero"}
    /\ task' = [task EXCEPT ![index] = "SkippedZeroSize"]
    /\ Continue
    /\ UNCHANGED << dir_exists, D, local, downloaded_files,
                    delete_files_from_sd_card_after_download, root, R, remote,
                    ftp_timelapse_files, filesize, chunks, cmds, exc,
                    exit_code >>

\* lines 118-128: open(download_file_path, 'wb') creates or truncates the file
OpenDest ==
    /\ pc = "sized"
    /\ ~ZeroSize(filesize)
    /\ log' = log \cup {"Starting"}
    /\ task' = [task EXCEPT ![index] = "Transferring"]
    /\ chunks' = 0
    /\ \/ /\ local' = local \cup {ftp_timelapse_files[index]}
          /\ pc' = "retr"
          /\ exc' = exc
       \/ /\ \E e \in Raised("open") : exc' = e
          /\ pc' = "except_download"
          /\ local' = local
    /\ UNCHANGED << dir_exists, D, downloaded_files,
                    delete_files_from_sd_card_after_download, root, R, remote,
                    ftp_timelapse_files, index, filesize, cmds, exit_code >>

\* line 133: RETR f is sent
Retr ==
    /\ pc = "retr"
    /\ cmds' = Append(cmds, Cmd("RETR", ftp_timelapse_files[index], index))
    /\ \/ /\ ftp_timelapse_files[index] \in remote
          /\ pc' = "streaming"
          /\ exc' = exc
       \/ /\ \E e \in Raised("retr") : exc' = e
          /\ pc' = "except_download"
    /\ UNCHANGED << dir_exists, D, local, downloaded_files,
                    delete_files_from_sd_card_after_download, root, R, remote,
                    ftp_timelapse_files, index, filesize, chunks, task, log,
                    exit_code >>

\* lines 129-131: one chunk arrives and is written
Callback ==
    /\ pc = "streaming"
    /\ chunks < MaxChunks
    /\ chunks' = chunks + 1
    /\ UNCHANGED << pc, dir_exists, D, local, downloaded_files,
                    delete_files_from_sd_card_after_download, root, R, remote,
                    ftp_timelapse_files, index, filesize, task, cmds, log, exc,
                    exit_code >>

\* lines 133, 120-128: retrbinary returns and the with block closes the file,
\* or the transfer breaks off
RetrEnd ==
    /\ pc = "streaming"
    /\ \/ /\ task' = [task EXCEPT ![index] = "Completed"]
          /\ pc' = "after_retr"
          /\ exc' = exc
       \/ /\ \E e \in Raised("retr") : exc' = e
          /\ pc' = "except_download"
          /\ task' = task
    /\ UNCHANGED << dir_exists, D, local, downloaded_files,
                    delete_files_from_sd_card_after_download, root, R, remote,
                    ftp_timelapse_files, index, filesize, chunks, cmds, log,
                    exit_code >>

\* DeleteRemote without the try of line 136: a failed DELE is handled as a
\* failed download, and the local file is removed
DeleteRemote_FailureRemovesLocal ==
    /\ pc = "after_retr"
    /\ LET f == ftp_timelapse_files[index] IN
       IF delete_files_from_sd_card_after_download
       THEN /\ cmds' = Append(cmds, Cmd("DELE", f, index))
            /\ \/ /\ f \in remote
                  /\ remote' = remote \ {f}
                  /\ task' = [task EXCEPT ![index] = "Deleted"]
                  /\ UNCHANGED << log, local >>
               \/ /\ remote' = remote
                  /\ task' = [task EXCEPT ![index] = "DeletionFailed"]
                  /\ log' = log \cup {"DownloadFailed"}
                  /\ local' = local \ {f}
       ELSE /\ task' = [task EXCEPT ![index] = "DeletionSkipped"]
            /\ UNCHANGED << cmds, remote, log, local >>
    /\ Continue
    /\ UNCHANGED << dir_exists, D, downloaded_files,
                    delete_files_from_sd_card_after_download, root, R,
                    ftp_timelapse_files, filesize, chunks, exc, exit_code >>

\* DeleteRemote without the test of the option (line 135)
DeleteRemote_Always ==
    /\ pc = "after_retr"
    /\ LET f == ftp_timelapse_files[index] IN
       /\ cmds' = Append(cmds, Cmd("DELE", f, index))
       /\ \/ /\ f \in remote
             /\ remote' = remote \ {f}
             /\ task' = [task EXCEPT ![index] = "Deleted"]
             /\ log' = log
          \/ /\ remote' = remote
             /\ task' = [task EXCEPT ![index] = "DeletionFailed"]
             /\ log' = log \cup {"DeleteFailed"}
    /\ Continue
    /\ UNCHANGED << dir_exists, D, local, downloaded_files,
                    delete_files_from_sd_card_after_download, root, R,
                    ftp_timelapse_files, filesize, chunks, exc, exit_code >>

\* lines 135-140: DELE f when the option is on; a failure is logged and the
\* loop continues
DeleteRemote ==
    /\ pc = "after_retr"
    /\ LET f == ftp_timelapse_files[index] IN
       IF delete_files_from_sd_card_after_download
       THEN /\ cmds' = Append(cmds, Cmd("DELE", f, index))
            /\ \/ /\ f \in remote
                  /\ remote' = remote \ {f}
                  /\ task' = [task EXCEPT ![index] = "Deleted"]
                  /\ log' = log
               \/ /\ remote' = remote
                  /\ task' = [task EXCEPT ![index] = "DeletionFailed"]
                  /\ log' = log \cup {"DeleteFailed"}
       ELSE /\ task' = [task EXCEPT ![index] = "DeletionSkipped"]
            /\ UNCHANGED << cmds, remote, log >>
    /\ Continue
    /\ UNCHANGED << dir_exists, D, local, downloaded_files,
                    delete_files_from_sd_card_after_download, root, R,
                    ftp_timelapse_files, filesize, chunks, exc, exit_code >>

\* ExceptDownload without the os.remove of lines 142-143
ExceptDownload_KeepsPartial ==
    /\ pc = "except_download"
    /\ log' = log \cup {"DownloadFailed"}
    /\ task' = [task EXCEPT ![index] = "Failed"]
    /\ exc' = NoExc
    /\ Continue
    /\ UNCHANGED << dir_exists, D, local, downloaded_files,
                    delete_files_from_sd_card_after_download, root, R, remote,
                    ftp_timelapse_files, filesize, chunks, cmds, exit_code >>

\* ExceptDownload that tries the same entry again instead of `continue`
ExceptDownload_Retry ==
    /\ pc = "except_download"
    /\ local' = local \ {ftp_timelapse_files[index]}
    /\ log' = log \cup {"DownloadFailed"}
    /\ task' = [task EXCEPT ![index] = "Pending"]
    /\ exc' = NoExc
    /\ pc' = "size"
    /\ UNCHANGED << dir_exists, D, downloaded_files,
                    delete_files_from_sd_card_after_download, root, R, remote,
                    ftp_timelapse_files, index, filesize, chunks, cmds,
                    exit_code >>

\* lines 141-145: remove the partial file when it exists, log, continue
ExceptDownload ==
    /\ pc = "except_download"
    /\ local' = local \ {ftp_timelapse_files[index]}
    /\ log' = log \cup {"DownloadFailed"}
    /\ task' = [task EXCEPT ![index] = "Failed"]
    /\ exc' = NoExc
    /\ Continue
    /\ UNCHANGED << dir_exists, D, downloaded_files,
                    delete_files_from_sd_card_after_download, root, R, remote,
                    ftp_timelapse_files, filesize, chunks, cmds, exit_code >>

\* lines 148-152: an error_perm whose text is "550 No files found" is logged
\* and ftp_download returns; any other exception goes on to line 156
ExceptErrorPerm ==
    /\ pc = "except_error_perm"
    /\ IF exc.type = "error_perm" /\ exc.msg = NoFilesMsg
       THEN /\ log' = log \cup {"NoFiles"}
            /\ pc' = "exited"
       ELSE /\ log' = log
            /\ pc' = "except_program"
    /\ UNCHANGED << dir_exists, D, local, downloaded_files,
                    delete_files_from_sd_card_after_download, root, R, remote,
                    ftp_timelapse_files, index, filesize, chunks, task, cmds,
                    exc, exit_code >>

\* lines 156-158: except Exception: log, sys.exit(1)
ExceptProgram ==
    /\ pc = "except_program"
    /\ log' = log \cup {"ProgramFailed"}
    /\ exit_code' = 1
    /\ pc' = "exited"
    /\ UNCHANGED << dir_exists, D, local, downloaded_files,
                    delete_files_from_sd_card_after_download, root, R, remote,
                    ftp_timelapse_files, index, filesize, chunks, task, cmds,
                    exc >>

Next ==
    \/ MakeDirs
    \/ ListDir
    \/ Connect
    \/ Login
    \/ ProtP
    \/ ExceptConnection
    \/ RootNlst
    \/ Cwd
    \/ Nlst
    \/ Size
    \/ SkipZero
    \/ OpenDest
    \/ Retr
    \/ Callback
    \/ RetrEnd
    \/ DeleteRemote
    \/ ExceptDownload
    \/ ExceptErrorPerm
    \/ ExceptProgram

Spec == Init /\ [][Next]_vars

----------------------------------------------------------------------------
\* The states the specification gives a download task, and its terminal ones.
TaskStates ==
    { "Pending", "Sizing", "SkippedZeroSize", "Transferring", "Completed",
      "Failed", "Deleted", "DeletionFailed", "DeletionSkipped" }
Terminal ==
    { "SkippedZeroSize", "Failed", "Deleted", "DeletionFailed",
      "DeletionSkipped" }

Entries == 1..Len(ftp_timelapse_files)

\* The filter of lines 103-104 has run.
Filtered == "Found" \in log \/ "NoNew" \in log

\* The loop goes on with the next entry, or is over and the run ends with 0.
Proceeds ==
    /\ exit_code' = 0
    /\ IF index < Len(ftp_timelapse_files)
       THEN pc' = "size" /\ index' = index + 1
       ELSE pc' = "exited" /\ index' = index

Sent(kinds, i) == { k \in 1..Len(cmds) : cmds[k].cmd \in kinds /\ cmds[k].i = i }

\* C1: once the folder is found, a failure of sizing or streaming entry i
\* never aborts the run: every later entry is still processed and the
\* process ends with exit code 0.
C1_PerFileFailureNeverAborts ==
    pc = "exited" =>
        \A i \in 1..Len(task) :
            (task[i] = "Failed" \/ (task[i] = "Sizing" /\ exc.at = "size")) =>
                /\ exit_code = 0
                /\ \A j \in (i + 1)..Len(task) : task[j] \in Terminal

\* C2: when streaming of f fails after the local file was created, handling
\* the failure leaves no file named f in the download directory, and the loop
\* goes on with the next entry.
C2_PartialFileRemoved ==
    [][ ( /\ pc = "except_download"
          /\ exc.at = "retr"
          /\ ftp_timelapse_files[index] \in local )
        => ( /\ ftp_timelapse_files[index] \notin local'
             /\ task'[index] = "Failed"
             /\ Proceeds ) ]_vars

C2_Witness ==
    \E i \in Entries :
        /\ task[i] = "Failed"
        /\ index = i + 1
        /\ pc = "size"
        /\ chunks > 0
        /\ ftp_timelapse_files[i] \notin local

\* C3: an entry whose reported size is 0 is not opened or written locally,
\* not requested with RETR and not deleted remotely, also with the delete
\* option on; the loop moves on to the next entry.
C3_ZeroSizeNeverFetched ==
    /\ [](\A i \in 1..Len(task) :
            task[i] = "SkippedZeroSize" => Sent({"RETR", "DELE"}, i) = {})
    /\ [][ (pc = "sized" /\ filesize = 0)
           => ( /\ local' = local
                /\ remote' = remote
                /\ cmds' = cmds
                /\ task'[index] = "SkippedZeroSize"
                /\ Proceeds ) ]_vars

C3_Witness ==
    \E i \in Entries :
        /\ task[i] = "SkippedZeroSize"
        /\ delete_files_from_sd_card_after_download
        /\ index = i + 1
        /\ pc = "size"

\* C4: with the delete option on, when the remote deletion of a transferred
\* file f fails (the server still holds f), the local file f still exists
\* after the failure is handled and the run goes on with the next entry,
\* without a fatal exit.
C4_DeleteFailureKeepsLocal ==
    [][ ( /\ pc = "after_retr"
          /\ delete_files_from_sd_card_after_download
          /\ ftp_timelapse_files[index] \in remote' )
        => ( /\ ftp_timelapse_files[index] \in local'
             /\ local' = local
             /\ task'[index] = "DeletionFailed"
             /\ Proceeds ) ]_vars

C4_Witness ==
    \E i \in Entries :
        /\ task[i] = "DeletionFailed"
        /\ index = i + 1
        /\ pc = "size"
        /\ ftp_timelapse_files[i] \in local
        /\ ftp_timelapse_files[i] \in remote

\* f = prefix + ".avi" for some prefix
HasAviSuffix(f) == \E n \in 0..Len(f) : f = SubSeq(f, 1, n) \o Avi
\* The positions of R that are to be fetched.
Kept == { k \in 1..Len(R) : HasAviSuffix(R[k]) /\ R[k] \notin D }

\* C5: the files to fetch are exactly the entries of the listing R whose name
\* ends with ".avi" and is not a file name of the local directory D, in the
\* order of R: the j-th file fetched is the j-th such entry.
C5_FilterExact ==
    Filtered =>
        LET K == Kept
            KeptAt(j) == CHOOSE k \in K : Cardinality({ m \in K : m <= k }) = j
        IN  /\ Len(ftp_timelapse_files) = Cardinality(K)
            /\ \A j \in Entries : ftp_timelapse_files[j] = R[KeptAt(j)]

C5_Witness ==
    /\ Filtered
    /\ Len(ftp_timelapse_files) >= 1
    /\ \E k \in 1..Len(R) : HasAviSuffix(R[k]) /\ R[k] \in D
    /\ \E k \in 1..Len(R) : ~HasAviSuffix(R[k])

\* C6: the local destination of f is never opened for writing while a file
\* named f exists in the download directory at that moment.
C6_NeverOverwrites ==
    [][ (pc = "sized" /\ pc' = "retr")
        => ftp_timelapse_files[index] \notin local ]_vars

\* C7: a failure of connect, login or prot_p ends the process with a non-zero
\* exit code with no listing and no filtering done; when the folder is not in
\* the root listing the process ends with a non-zero exit code, the download
\* directory is as it was and no SIZE, RETR or DELE was sent.
C7_FatalSetup ==
    /\ exc.at \in {"connect", "login", "prot_p"} =>
          /\ pc \in {"except_connection", "exited"}
          /\ pc = "exited" => exit_code = 1
          /\ cmds = <<>>
          /\ ~Filtered
          /\ ftp_timelapse_files = <<>>
    /\ (Len(cmds) >= 1 /\ exc = NoExc /\ ftp_timelapse_folder \notin root) =>
          /\ pc = "exited"
          /\ exit_code = 1
          /\ local = D
          /\ \A k \in 1..Len(cmds) : cmds[k].cmd \notin {"SIZE", "RETR", "DELE"}
          /\ ~Filtered

C7_Witness ==
    /\ pc = "exited"
    /\ exit_code = 1
    /\ ftp_timelapse_folder \notin root
    /\ Len(cmds) = 1
    /\ exc = NoExc
    /\ D # {}
    /\ Range(R) # {}

\* C8: listing the folder has two error outcomes: the "550 No files found"
\* answer is not fatal (nothing is downloaded, exit 0), any other error of the
\* listing is fatal (exit non-zero); and the "no files" outcome arises from
\* the listing only, never from a later operation on one file.
C8_NoFilesOnlyFromListing ==
    /\ (pc = "exited" /\ exc.at = "nlst") =>
          IF exc.type = "error_perm" /\ exc.msg = NoFilesMsg
          THEN exit_code = 0 /\ local = D /\ Len(cmds) = 3
          ELSE exit_code = 1
    /\ "NoFiles" \in log => exc.at = "nlst"

\* The steps of a task the specification allows.
Forward(s, t) ==
    \/ s = t
    \/ s = "Pending" /\ t = "Sizing"
    \/ s = "Sizing" /\ t \in {"SkippedZeroSize", "Transferring"}
    \/ s = "Transferring" /\ t \in {"Completed", "Failed"}
    \/ s = "Completed" /\ t \in {"Deleted", "DeletionFailed", "DeletionSkipped"}

\* C9: a task only moves forward through Pending, Sizing, SkippedZeroSize or
\* Transferring, Completed or Failed, Deleted or DeletionFailed or
\* DeletionSkipped; it is never retried; at most one task is under way, and a
\* task leaves Pending only after the one before it is terminal.
C9_TasksForwardOneAtATime ==
    /\ [](\A i \in 1..Len(task) : task[i] \in TaskStates)
    /\ [](Cardinality({ i \in 1..Len(task) :
                          task[i] \notin Terminal \cup {"Pending"} }) <= 1)
    /\ [](\A i \in 1..Len(task) :
            (i > 1 /\ task[i] # "Pending") => task[i - 1] \in Terminal)
    /\ [][ task # <<>> =>
             /\ Len(task') = Len(task)
             /\ \A i \in 1..Len(task) : Forward(task[i], task'[i]) ]_vars

C9_Witness ==
    /\ Len(task) = 3
    /\ task[1] = "Failed"
    /\ task[2] = "Deleted"
    /\ task[3] = "Transferring"

\* C10: DELE f is sent only with the delete option on and after the transfer
\* of f in this run has completed without error, and every file the run has
\* deleted remotely exists in the download directory, up to and including
\* the exit of the process.
C10_NoLossByRemoteDelete ==
    /\ [](\A f \in Range(R) \ remote : f \in local)
    /\ [][ (Len(cmds') > Len(cmds) /\ cmds'[Len(cmds')].cmd = "DELE")
           => ( /\ delete_files_from_sd_card_after_download
                /\ task[index] = "Completed"
                /\ cmds'[Len(cmds')].arg = ftp_timelapse_files[index]
                /\ ftp_timelapse_files[index] \in local ) ]_vars

C10_Witness ==
    /\ pc = "exited"
    /\ \E f \in Range(R) \ remote : f \in local
    /\ \E i \in Entries : task[i] = "Failed"

====
